---- MODULE Spec2Model ----
(***************************************************************************)
(* Model of supporting-blog-content/colpali/04_token_pooling.ipynb:        *)
(*   - to_bit_vectors (binarizer), specification SpecBits;                 *)
(*   - index_document / process_file / the ThreadPoolExecutor indexing     *)
(*     block (indexer), specification Spec.                                *)
(* The search engine is an external service: es.exists and es.index are    *)
(* environment steps that either answer or raise.                          *)
(***************************************************************************)
EXTENDS Integers, Sequences, FiniteSets, TLC

(* ------------------------------ bounds -------------------------------- *)
\* number of documents in the pickled mapping file_to_multi_vectors
NumDocs == 4
\* worker threads of the pool.  The notebook passes max_workers=10; the
\* model scales the pool down so that NumDocs documents exceed it and the
\* limit is actually reached.
PoolSize == 2
\* how many times the indexing cell is executed (first run and re-runs)
MaxRuns == 2
\* size of the binarizer's argument, counted as its number of components
\* plus two per vector: one vector of up to 9 components (two bytes), two
\* vectors of up to 7 components together, three of up to 5, ...
MaxSize == 11

(* ------------------------- program constants -------------------------- *)
\* index_document(..., retries=10, initial_backoff=1)
retries == 10
initial_backoff == 1

\* The notebook calls time.sleep but no cell imports the module `time`:
\* evaluating the name raises NameError.
time_is_bound == FALSE

Docs == 1..NumDocs

VARIABLES
    index,          \* ids of the documents stored in INDEX_NAME
    writes,         \* per id: successful es.index calls since the beginning
    indexAtStart,   \* content of the index when the current run started
    pc,             \* per document: position of its future / process_file
    attempt,        \* per document: loop variable of index_document
    calls,          \* per document: es_client.index calls in this run
    delays,         \* per document: wait_time values slept, in order
    err,            \* per document: exception its future holds
    invocations,    \* per document: process_file invocations in this run
    main,           \* main thread: "iter", "cancel", "done", "failed"
    next,           \* main thread: document whose result it waits for
    cursor,         \* main thread: next future to cancel (counts down)
    runs,           \* executions of the indexing cell so far
    embedding,      \* to_bit_vectors: its argument
    embeddings,     \* to_bit_vectors: the list it builds
    idx,            \* to_bit_vectors: vectors consumed so far
    bpc             \* to_bit_vectors: "idle", "loop", "returned"

idxVars == <<index, writes, indexAtStart, pc, attempt, calls, delays, err,
             invocations, main, next, cursor, runs>>
bitVars == <<embedding, embeddings, idx, bpc>>
vars == <<index, writes, indexAtStart, pc, attempt, calls, delays, err,
          invocations, main, next, cursor, runs,
          embedding, embeddings, idx, bpc>>

RECURSIVE Pow2(_)
Pow2(n) == IF n = 0 THEN 1 ELSE 2 * Pow2(n - 1)

(* ============================ indexer ================================= *)

Running(d) == pc[d] \in {"exists", "index"}
NumRunning == Cardinality({d \in Docs : Running(d)})
Finished(d) == pc[d] \in {"returned", "raised"}

\* wait_time = initial_backoff * (2 ** (attempt - 1))
wait_time(a) == initial_backoff * Pow2(a - 1)

\* executor.map submits one future per item of file_to_multi_vectors.items()
SubmitAll ==
    /\ pc' = [d \in Docs |-> "pending"]
    /\ attempt' = [d \in Docs |-> 0]
    /\ calls' = [d \in Docs |-> 0]
    /\ delays' = [d \in Docs |-> <<>>]
    /\ err' = [d \in Docs |-> "none"]
    /\ invocations' = [d \in Docs |-> 0]
    /\ main' = "iter"
    /\ next' = 1
    /\ cursor' = 0

InitIdx ==
    /\ index \in SUBSET Docs
    /\ indexAtStart = index
    /\ writes = [d \in Docs |-> 0]
    /\ pc = [d \in Docs |-> "pending"]
    /\ attempt = [d \in Docs |-> 0]
    /\ calls = [d \in Docs |-> 0]
    /\ delays = [d \in Docs |-> <<>>]
    /\ err = [d \in Docs |-> "none"]
    /\ invocations = [d \in Docs |-> 0]
    /\ main = "iter"
    /\ next = 1
    /\ cursor = 0
    /\ runs = 1

\* variant of Start: a thread per work item, the pool limit is not applied
Start_unbounded(d) ==
    /\ pc[d] = "pending"
    /\ \A e \in Docs : e < d => pc[e] # "pending"
    /\ pc' = [pc EXCEPT ![d] = "exists"]
    /\ invocations' = [invocations EXCEPT ![d] = @ + 1]
    /\ UNCHANGED <<index, writes, indexAtStart, attempt, calls, delays, err,
                   main, next, cursor, runs>>
    /\ UNCHANGED bitVars

\* A worker thread takes the oldest work item whose future is still pending
\* and calls process_file for it; at most PoolSize threads exist.
Start(d) ==
    /\ pc[d] = "pending"
    /\ \A e \in Docs : e < d => pc[e] # "pending"
    /\ NumRunning < PoolSize
    /\ pc' = [pc EXCEPT ![d] = "exists"]
    /\ invocations' = [invocations EXCEPT ![d] = @ + 1]
    /\ UNCHANGED <<index, writes, indexAtStart, attempt, calls, delays, err,
                   main, next, cursor, runs>>
    /\ UNCHANGED bitVars

\* variant of ExistsTrue: the early return is missing
ExistsTrue_noreturn(d) ==
    /\ pc[d] = "exists"
    /\ d \in index
    /\ pc' = [pc EXCEPT ![d] = "index"]
    /\ attempt' = [attempt EXCEPT ![d] = 1]
    /\ UNCHANGED <<index, writes, indexAtStart, calls, delays, err,
                   invocations, main, next, cursor, runs>>
    /\ UNCHANGED bitVars

\* process_file: es.exists(...) answers True -> return
ExistsTrue(d) ==
    /\ pc[d] = "exists"
    /\ d \in index
    /\ pc' = [pc EXCEPT ![d] = "returned"]
    /\ UNCHANGED <<index, writes, indexAtStart, attempt, calls, delays, err,
                   invocations, main, next, cursor, runs>>
    /\ UNCHANGED bitVars

\* variant of ExistsFalse: the check looks the id up in another index and
\* answers False whatever INDEX_NAME holds
ExistsFalse_wrongindex(d) ==
    /\ pc[d] = "exists"
    /\ pc' = [pc EXCEPT ![d] = "index"]
    /\ attempt' = [attempt EXCEPT ![d] = 1]
    /\ UNCHANGED <<index, writes, indexAtStart, calls, delays, err,
                   invocations, main, next, cursor, runs>>
    /\ UNCHANGED bitVars

\* process_file: es.exists(...) answers False -> pool, binarize, enter
\* index_document with attempt = 1
ExistsFalse(d) ==
    /\ pc[d] = "exists"
    /\ d \notin index
    /\ pc' = [pc EXCEPT ![d] = "index"]
    /\ attempt' = [attempt EXCEPT ![d] = 1]
    /\ UNCHANGED <<index, writes, indexAtStart, calls, delays, err,
                   invocations, main, next, cursor, runs>>
    /\ UNCHANGED bitVars

\* variant of ExistsRaises: the error of the check is swallowed and the
\* document is written as if it were absent
ExistsRaises_swallowed(d) ==
    /\ pc[d] = "exists"
    /\ pc' = [pc EXCEPT ![d] = "index"]
    /\ attempt' = [attempt EXCEPT ![d] = 1]
    /\ err' = [err EXCEPT ![d] = "ExistsError"]
    /\ UNCHANGED <<index, writes, indexAtStart, calls, delays,
                   invocations, main, next, cursor, runs>>
    /\ UNCHANGED bitVars

\* process_file: es.exists(...) raises; nothing catches it
ExistsRaises(d) ==
    /\ pc[d] = "exists"
    /\ pc' = [pc EXCEPT ![d] = "raised"]
    /\ err' = [err EXCEPT ![d] = "ExistsError"]
    /\ UNCHANGED <<index, writes, indexAtStart, attempt, calls, delays,
                   invocations, main, next, cursor, runs>>
    /\ UNCHANGED bitVars

\* index_document: es_client.index(...) succeeds -> return its result
IndexOk(d) ==
    /\ pc[d] = "index"
    /\ calls' = [calls EXCEPT ![d] = @ + 1]
    /\ index' = index \cup {d}
    /\ writes' = [writes EXCEPT ![d] = @ + 1]
    /\ pc' = [pc EXCEPT ![d] = "returned"]
    /\ UNCHANGED <<indexAtStart, attempt, delays, err, invocations, main,
                   next, cursor, runs>>
    /\ UNCHANGED bitVars

\* index_document: es_client.index(...) raises -> the except clause
IndexRaises(d) ==
    /\ pc[d] = "index"
    /\ calls' = [calls EXCEPT ![d] = @ + 1]
    /\ IF attempt[d] < retries
         THEN IF time_is_bound
                THEN /\ delays' = [delays EXCEPT
                                     ![d] = Append(@, wait_time(attempt[d]))]
                     /\ attempt' = [attempt EXCEPT ![d] = @ + 1]
                     /\ UNCHANGED <<pc, err>>
                ELSE /\ pc' = [pc EXCEPT ![d] = "raised"]
                     /\ err' = [err EXCEPT ![d] = "NameError"]
                     /\ UNCHANGED <<delays, attempt>>
         ELSE /\ pc' = [pc EXCEPT ![d] = "raised"]
              /\ err' = [err EXCEPT ![d] = "IndexError"]
              /\ UNCHANGED <<delays, attempt>>
    /\ UNCHANGED <<index, writes, indexAtStart, invocations, main, next,
                   cursor, runs>>
    /\ UNCHANGED bitVars

\* list(executor.map(...)): the result iterator yields the next result
MainYield ==
    /\ main = "iter"
    /\ next <= NumDocs
    /\ pc[next] = "returned"
    /\ next' = next + 1
    /\ UNCHANGED <<index, writes, indexAtStart, pc, attempt, calls, delays,
                   err, invocations, main, cursor, runs>>
    /\ UNCHANGED bitVars

\* the awaited future holds an exception: result() re-raises it and the
\* iterator's finally clause starts cancelling the futures not yet yielded,
\* last submitted first
MainObserveError ==
    /\ main = "iter"
    /\ next <= NumDocs
    /\ pc[next] = "raised"
    /\ main' = "cancel"
    /\ cursor' = NumDocs
    /\ UNCHANGED <<index, writes, indexAtStart, pc, attempt, calls, delays,
                   err, invocations, next, runs>>
    /\ UNCHANGED bitVars

\* future.cancel(): only a pending future is cancelled
Cancel ==
    /\ main = "cancel"
    /\ cursor > next
    /\ pc' = [pc EXCEPT ![cursor] = IF @ = "pending" THEN "cancelled" ELSE @]
    /\ cursor' = cursor - 1
    /\ UNCHANGED <<index, writes, indexAtStart, attempt, calls, delays, err,
                   invocations, main, next, runs>>
    /\ UNCHANGED bitVars

\* variant of Shutdown: shutdown(wait=False), the workers are not joined
Shutdown_nowait ==
    /\ \/ main = "iter" /\ next = NumDocs + 1
       \/ main = "cancel" /\ cursor = next
    /\ main' = IF main = "iter" THEN "done" ELSE "failed"
    /\ UNCHANGED <<index, writes, indexAtStart, pc, attempt, calls, delays,
                   err, invocations, next, cursor, runs>>
    /\ UNCHANGED bitVars

\* leaving the with block: executor.shutdown(wait=True) joins the workers
Shutdown ==
    /\ \/ main = "iter" /\ next = NumDocs + 1
       \/ main = "cancel" /\ cursor = next
    /\ \A d \in Docs : ~Running(d) /\ pc[d] # "pending"
    /\ main' = IF main = "iter" THEN "done" ELSE "failed"
    /\ UNCHANGED <<index, writes, indexAtStart, pc, attempt, calls, delays,
                   err, invocations, next, cursor, runs>>
    /\ UNCHANGED bitVars

\* the indexing cell is executed again over the same pickled mapping
Rerun ==
    /\ main \in {"done", "failed"}
    /\ runs < MaxRuns
    /\ runs' = runs + 1
    /\ indexAtStart' = index
    /\ SubmitAll
    /\ UNCHANGED <<index, writes>>
    /\ UNCHANGED bitVars

RunOver == main \in {"done", "failed"}

NextIdx ==
    \/ \E d \in Docs : Start(d)
    \/ \E d \in Docs : ExistsTrue(d)
    \/ \E d \in Docs : ExistsFalse(d)
    \/ \E d \in Docs : ExistsRaises(d)
    \/ \E d \in Docs : IndexOk(d)
    \/ \E d \in Docs : IndexRaises(d)
    \/ MainYield
    \/ MainObserveError
    \/ Cancel
    \/ Shutdown
    \/ Rerun

(* =========================== binarizer ================================ *)

\* component values of a pooled vector: negative, zero, positive
Comp == {-1, 0, 1}

HexDigits == <<"0", "1", "2", "3", "4", "5", "6", "7",
               "8", "9", "a", "b", "c", "d", "e", "f">>

\* variant of where_gt0: the threshold is >= 0
where_ge0(v) == [i \in 1..Len(v) |-> IF v[i] >= 0 THEN 1 ELSE 0]

\* np.where(patch_embedding > 0, 1, 0)
where_gt0(v) == [i \in 1..Len(v) |-> IF v[i] > 0 THEN 1 ELSE 0]

\* np.packbits: 8 bits per byte, first bit in the most significant
\* position, the last byte padded with zero bits; values are uint8
packbits(bits) ==
    LET n == (Len(bits) + 7) \div 8
        bit(i) == IF i <= Len(bits) THEN bits[i] ELSE 0
        byte(j) == bit(8 * j - 7) * 128 + bit(8 * j - 6) * 64
                   + bit(8 * j - 5) * 32 + bit(8 * j - 4) * 16
                   + bit(8 * j - 3) * 8 + bit(8 * j - 2) * 4
                   + bit(8 * j - 1) * 2 + bit(8 * j)
    IN  [j \in 1..n |-> byte(j)]

\* variant of astype_int8: a saturating cast, values above 127 become 127
astype_int8_saturating(bytes) ==
    [j \in 1..Len(bytes) |-> IF bytes[j] >= 128 THEN 127 ELSE bytes[j]]

\* .astype(np.int8): uint8 values above 127 wrap to negative int8 values
astype_int8(bytes) ==
    [j \in 1..Len(bytes) |-> IF bytes[j] >= 128 THEN bytes[j] - 256
                                                ELSE bytes[j]]

\* .tobytes(): each int8 value as its two's complement byte, 0..255
tobytes(arr) ==
    [j \in 1..Len(arr) |-> IF arr[j] < 0 THEN arr[j] + 256 ELSE arr[j]]

\* bytes.hex(): two lowercase hexadecimal digits per byte, high nibble first
hex(bytes) ==
    [p \in 1..(2 * Len(bytes)) |->
        LET b == bytes[(p + 1) \div 2]
        IN  IF p % 2 = 1 THEN HexDigits[(b \div 16) + 1]
                         ELSE HexDigits[(b % 16) + 1]]

\* the expression bound to binary_vector in the loop body
binary_vector(v) == hex(tobytes(astype_int8(packbits(where_gt0(v)))))

\* flat cut into k consecutive vectors, the i-th ending at cuts[i]
Split(flat, k, cuts) ==
    [i \in 1..k |-> SubSeq(flat, (IF i = 1 THEN 0 ELSE cuts[i - 1]) + 1,
                           cuts[i])]

\* the argument: k vectors (possibly of different dimensions) with n
\* components in total, n + 2k <= MaxSize, each component from Comp
InitBits ==
    /\ \E k \in 0..(MaxSize \div 2) : \E n \in 0..(MaxSize - 2 * k) :
         \E flat \in [1..n -> Comp], cuts \in [1..k -> 0..n] :
            /\ \A i \in 1..k : i > 1 => cuts[i - 1] <= cuts[i]
            /\ IF k = 0 THEN n = 0 ELSE cuts[k] = n
            /\ embedding = Split(flat, k, cuts)
    /\ embeddings = <<>>
    /\ idx = 0
    /\ bpc = "loop"

\* one iteration of `for idx, patch_embedding in enumerate(embedding)`
BitStep ==
    /\ bpc = "loop"
    /\ idx < Len(embedding)
    /\ embeddings' = Append(embeddings, binary_vector(embedding[idx + 1]))
    /\ idx' = idx + 1
    /\ UNCHANGED <<embedding, bpc>>
    /\ UNCHANGED idxVars

\* return embeddings
BitReturn ==
    /\ bpc = "loop"
    /\ idx = Len(embedding)
    /\ bpc' = "returned"
    /\ UNCHANGED <<embedding, embeddings, idx>>
    /\ UNCHANGED idxVars

InitBitsIdle ==
    /\ embedding = <<>>
    /\ embeddings = <<>>
    /\ idx = 0
    /\ bpc = "idle"

(* ========================= specifications ============================= *)

\* the indexing cell, executed up to MaxRuns times
Init == InitIdx /\ InitBitsIdle
Next == NextIdx
Spec == Init /\ [][Next]_vars

\* to_bit_vectors applied to every argument InitBits draws
InitIdxIdle ==
    /\ index = {}
    /\ indexAtStart = {}
    /\ writes = [d \in Docs |-> 0]
    /\ pc = [d \in Docs |-> "pending"]
    /\ attempt = [d \in Docs |-> 0]
    /\ calls = [d \in Docs |-> 0]
    /\ delays = [d \in Docs |-> <<>>]
    /\ err = [d \in Docs |-> "none"]
    /\ invocations = [d \in Docs |-> 0]
    /\ main = "iter"
    /\ next = 1
    /\ cursor = 0
    /\ runs = 1

InitB == InitIdxIdle /\ InitBits
NextB == BitStep \/ BitReturn
SpecBits == InitB /\ [][NextB]_vars

(* ============================= claims ================================= *)

\* C1: a document that is in the index when a run of the indexing step
\* starts is never handed to index_document in that run: no es.index call
\* is made for it and its process_file does not reach the write, so a re-run
\* over documents already present writes nothing.
C1_PresentNeverWritten ==
    \A d \in indexAtStart :
        /\ calls[d] = 0
        /\ attempt[d] = 0
        /\ pc[d] # "index"
        /\ (Finished(d) /\ err[d] = "none") => pc[d] = "returned"

\* a second run has skipped a document that the first run wrote
C1_Witness ==
    /\ runs = 2
    /\ \E d \in indexAtStart :
          pc[d] = "returned" /\ writes[d] = 1 /\ invocations[d] = 1

\* C2: every document identifier is written to the index at most once over
\* all runs, and a document that is in the index is never written again.
C2_WrittenAtMostOnce ==
    /\ [](\A d \in Docs : writes[d] <= 1)
    /\ [][\A d \in Docs :
            d \in index => (writes'[d] = writes[d] /\ d \in index')]_vars

\* all runs are over and some document was written (exactly once)
C2_Witness ==
    /\ RunOver
    /\ runs = MaxRuns
    /\ \E d \in Docs : writes[d] = 1 /\ d \in index

\* the delays of a retry sequence with f failed attempts: 1, 2, 4, ...
GeometricDelays(f) == [k \in 1..f |-> initial_backoff * Pow2(k - 1)]

\* C3 (as claimed): index_document gives up only after `retries` failed
\* attempts, so that fewer failures followed by a success end in the
\* successful result after failures + 1 attempts, and the delays slept so
\* far are initial_backoff * 2^(k-1) for k = 1, 2, ...
C3_Claim ==
    \A d \in Docs :
        /\ (pc[d] = "raised" /\ calls[d] < retries) => err[d] = "ExistsError"
        /\ (pc[d] = "returned" /\ calls[d] > 0) =>
               delays[d] = GeometricDelays(calls[d] - 1)
        /\ (pc[d] = "index") => delays[d] = GeometricDelays(calls[d])

\* C4 (as claimed): when index_document raises, it has made exactly
\* `retries` write attempts, slept retries - 1 times, and the exception is
\* the one of the final es_client.index call.
C4_Claim ==
    \A d \in Docs :
        (pc[d] = "raised" /\ err[d] # "ExistsError") =>
            /\ calls[d] = retries
            /\ err[d] = "IndexError"
            /\ Len(delays[d]) = retries - 1

C6_BoundedPool ==
    /\ NumRunning <= PoolSize
    /\ \A d \in Docs : invocations[d] <= 1
    /\ \A d \in Docs : (Running(d) \/ Finished(d)) => invocations[d] = 1
    /\ main = "done" => \A d \in Docs : invocations[d] = 1

\* the pool is full while a document waits, and a later document has
\* finished before an earlier one
C6_Witness ==
    /\ NumRunning = PoolSize
    /\ \E d \in Docs : pc[d] = "pending"
    /\ \E d, e \in Docs : d < e /\ Running(d) /\ Finished(e)

\* the hex string the claim describes for vector v: one bit per component,
\* 1 iff the component is > 0, most significant bit first, zero padded to
\* whole bytes, four bits per lowercase digit
SignBit(v, i) == IF i <= Len(v) /\ v[i] > 0 THEN 1 ELSE 0
ExpectedHex(v) ==
    [p \in 1..(2 * ((Len(v) + 7) \div 8)) |->
        HexDigits[1 + 8 * SignBit(v, 4 * p - 3) + 4 * SignBit(v, 4 * p - 2)
                    + 2 * SignBit(v, 4 * p - 1) + SignBit(v, 4 * p)]]

\* C7: to_bit_vectors yields one hex string per vector, in input order,
\* and the string of a vector is the MSB-first packing of its sign bits
\* (component > 0) in lowercase hex.
C7_BitVectors ==
    /\ Len(embeddings) = idx
    /\ bpc = "returned" => Len(embeddings) = Len(embedding)
    /\ \A j \in 1..Len(embeddings) : embeddings[j] = ExpectedHex(embedding[j])

\* two vectors with a zero, a negative and a positive component
C7_Witness ==
    /\ bpc = "returned"
    /\ embedding = <<(<<0, -1, 1>>), (<<1>>)>>
    /\ embeddings = <<(<<"2", "0">>), (<<"8", "0">>)>>

\* decoding a hex string back to bits, four bits per digit
DigitValue(c) == CHOOSE n \in 0..15 : HexDigits[n + 1] = c
HexToBits(h) ==
    [i \in 1..(4 * Len(h)) |->
        (DigitValue(h[(i + 3) \div 4]) \div Pow2(3 - ((i - 1) % 4))) % 2]

\* C8: decoding the hex string of a vector gives back, for every
\* component, whether the component is > 0.
C8_RoundTrip ==
    \A j \in 1..Len(embeddings) :
        /\ 4 * Len(embeddings[j]) >= Len(embedding[j])
        /\ \A i \in 1..Len(embedding[j]) :
              (HexToBits(embeddings[j])[i] = 1) <=> (embedding[j][i] > 0)

\* a two-byte vector whose first byte has its top bit set
C8_Witness ==
    /\ bpc = "returned"
    /\ \E j \in 1..Len(embedding) :
          /\ Len(embedding[j]) = 9
          /\ embedding[j][1] > 0 /\ embedding[j][2] < 0
          /\ embedding[j][9] > 0
          /\ Len(embeddings[j]) = 4
          /\ embeddings[j][1] \in {"8", "9", "a", "b"}

C10_ExistsFailureNotRetried ==
    \A d \in Docs :
        err[d] = "ExistsError" =>
            /\ pc[d] = "raised"
            /\ calls[d] = 0
            /\ attempt[d] = 0
            /\ delays[d] = <<>>
            /\ (d \in index) <=> (d \in indexAtStart)

\* the check failed for a document that is absent from the index
C10_Witness ==
    \E d \in Docs :
        /\ err[d] = "ExistsError"
        /\ pc[d] = "raised"
        /\ d \notin index
        /\ invocations[d] = 1

====
